---- MODULE Spec2Model ----
(***************************************************************************)
(* Model of two parts of py5:                                              *)
(*   - the weak image cache of ImageMixin (py5/mixins/image.py),           *)
(*   - the sketch-capture driver _run_sketch and the four cell magics of   *)
(*     DrawingMagics (py5_tools/magics/drawing.py).                        *)
(* The two parts share no state; SpecCache and SpecSketch run them apart.  *)
(***************************************************************************)
EXTENDS Integers, Sequences, FiniteSets, TLC

(***************************************************************************)
(* Bounds                                                                  *)
(***************************************************************************)
MaxObjects == 2      \* source image objects ever created
MaxConv == 3         \* calls of Converter.to_pimage
MaxExtra == 2        \* distinct extra positional arguments in a tuple input

(***************************************************************************)
(* Python values of the image cache                                        *)
(***************************************************************************)
\* Python's None.  Object identities and converted images are positive.
None == 0

\* Identities of the source image objects.
Objects == 1..MaxObjects

\* An image-like argument: a bare object, or a tuple (first, extra).  id is
\* the identity of the argument itself; a tuple is an object of its own.
BareImage(x) == [isTuple |-> FALSE, id |-> x, first |-> None, extra |-> 0]
TupleImage(x, e) == [isTuple |-> TRUE, id |-> 100 + 10 * x + e, first |-> x, extra |-> e]
ImagesOf(x) == {BareImage(x)} \cup {TupleImage(x, e) : e \in 1..MaxExtra}

VARIABLES
  weak_image_refs,   \* ImageMixin._weak_image_refs: sequence of (ref, pimage)
  born,              \* number of source objects created so far
  alive,             \* source objects that still have a strong reference
  nconv,             \* number of calls of to_pimage so far
  last,              \* the cache call made by the last step and what it returned
  cachedFor,         \* per live object: its last resolve(x, True) since the last flush
  afterFlush,        \* flush_image_cache ran and no resolve(., True) since
  pc,                \* position of the running cell magic: "idle" between cells,
                     \* "done" when it has returned or raised
  frame,             \* arguments and locals of the running (or last) cell magic
  is_running,        \* py5.is_running
  user_ns,           \* names bound in the notebook namespace (shell.user_ns)
  tempdir,           \* the TemporaryDirectory of _run_sketch and its files
  files,             \* user files written so far
  stdout,            \* messages printed by the running (or last) cell magic
  displayed          \* objects displayed by the running (or last) cell magic

cacheVars == <<weak_image_refs, born, alive, nconv, last, cachedFor, afterFlush>>
sketchVars == <<pc, frame, is_running, user_ns, tempdir, files, stdout, displayed>>
vars == <<cacheVars, sketchVars>>

(***************************************************************************)
(* Weak references                                                         *)
(***************************************************************************)
\* ref(): the referent while it is alive, None once it has expired.
Deref(ref) == IF ref \in alive THEN ref ELSE None

\* Variant: the tuple itself is taken as the key.
FirstOfTuple_whole(image) == image.id

\* `if isinstance(image, tuple): image = image[0]`
FirstOfTuple(image) == IF image.isTuple THEN image.first ELSE image.id

\* list.remove(entry): removes the first element equal to entry.
RECURSIVE ListRemove(_, _)
ListRemove(list, entry) ==
  IF list = <<>> THEN <<>>
  ELSE IF Head(list) = entry THEN Tail(list)
  ELSE <<Head(list)>> \o ListRemove(Tail(list), entry)

\* Variant: expired entries are left in the list.
EvictExpired_never(refs, entry) == refs

\* `if ref() is None: self._weak_image_refs.remove((ref, pimage))`
EvictExpired(refs, entry) ==
  IF Deref(entry.ref) = None THEN ListRemove(refs, entry) ELSE refs

\* Variant: the list is scanned oldest entry first, without eviction.
RECURSIVE ReversedScan_forward(_, _, _)
ReversedScan_forward(refs, index, key) ==
  LET i == Len(refs) - index + 1 IN
  IF i < 1 \/ i > Len(refs) THEN [refs |-> refs, pimage |-> None]
  ELSE IF key = Deref(refs[i].ref) THEN [refs |-> refs, pimage |-> refs[i].pimage]
  ELSE ReversedScan_forward(refs, index - 1, key)

\* `for ref, pimage in reversed(self._weak_image_refs)` from position index
\* down.  The reverse iterator keeps an index into the list, steps it down by
\* one and stops when the index is outside the list; the loop returns at the
\* first entry whose referent is the key.
RECURSIVE ReversedScan(_, _, _)
ReversedScan(refs, index, key) ==
  IF index < 1 \/ index > Len(refs) THEN [refs |-> refs, pimage |-> None]
  ELSE LET entry == refs[index]
           refs1 == EvictExpired(refs, entry)
       IN IF key = Deref(entry.ref)
          THEN [refs |-> refs1, pimage |-> entry.pimage]
          ELSE ReversedScan(refs1, index - 1, key)

\* ImageMixin._check_cache: the list after the scan and the value returned.
check_cache(refs, image) == ReversedScan(refs, Len(refs), FirstOfTuple(image))

\* ImageMixin._store_cache
store_cache(refs, image, pimage) ==
  Append(refs, [ref |-> FirstOfTuple(image), pimage |-> pimage])

\* Variant: every cached call stores.
StoreNeeded_always(cache, cache_hit) == cache

\* `if cache and not cache_hit`
StoreNeeded(cache, cache_hit) == cache /\ ~cache_hit

\* Variant: a flush drops the expired entries only.
FlushedRefs_expiredOnly(refs) == SelectSeq(refs, LAMBDA e : Deref(e.ref) # None)

\* `self._weak_image_refs = []`
FlushedRefs(refs) == <<>>

\* Records of the calls made: extra = 0 stands for a bare (non-tuple) argument.
NoCall == [called |-> FALSE, ret |-> None, extra |-> 0]
NoLast == [op |-> "init", key |-> None, cache |-> FALSE,
           ret |-> None, converted |-> FALSE, first |-> FALSE]

(***************************************************************************)
(* Image cache: operations                                                 *)
(***************************************************************************)
\* ImageMixin._check_cache_or_convert(image, cache), as called by image()
\* and texture().  to_pimage returns a new native image or None.
check_cache_or_convert(image, cache) ==
  LET obj == IF image.isTuple THEN image.first ELSE image.id  \* the source object
      chk == IF cache THEN check_cache(weak_image_refs, image)
             ELSE [refs |-> weak_image_refs, pimage |-> None]
      cache_hit == cache /\ chk.pimage # None
      convert == chk.pimage = None
  IN /\ obj \in alive
     /\ convert => nconv < MaxConv
     /\ \E converted_pimage \in (IF convert THEN {None, nconv + 1} ELSE {None}) :
          LET pimage == IF convert THEN converted_pimage ELSE chk.pimage IN
          /\ nconv' = IF convert THEN nconv + 1 ELSE nconv
          /\ weak_image_refs' = IF StoreNeeded(cache, cache_hit)
                                THEN store_cache(chk.refs, image, pimage)
                                ELSE chk.refs
          /\ last' = [op |-> "resolve", key |-> obj, cache |-> cache, ret |-> pimage,
                      converted |-> convert, first |-> (afterFlush /\ cache)]
          /\ cachedFor' = IF cache
                          THEN [cachedFor EXCEPT ![obj] =
                                  [called |-> TRUE, ret |-> pimage, extra |-> image.extra]]
                          ELSE cachedFor
          /\ afterFlush' = (afterFlush /\ ~cache)
     /\ UNCHANGED <<born, alive, sketchVars>>

Resolve == \E x \in alive : \E image \in ImagesOf(x) : \E cache \in BOOLEAN :
             check_cache_or_convert(image, cache)

\* ImageMixin.flush_image_cache
flush_image_cache ==
  /\ weak_image_refs' = FlushedRefs(weak_image_refs)
  /\ cachedFor' = [x \in Objects |-> NoCall]
  /\ afterFlush' = TRUE
  /\ last' = [NoLast EXCEPT !.op = "flush"]
  /\ UNCHANGED <<born, alive, nconv, sketchVars>>

\* The program creates a new source image object.
NewObject ==
  /\ born < MaxObjects
  /\ born' = born + 1
  /\ alive' = alive \cup {born + 1}
  /\ last' = NoLast
  /\ UNCHANGED <<weak_image_refs, nconv, cachedFor, afterFlush, sketchVars>>

\* The last strong reference to a source object goes away: its weak
\* references expire, and the object can never be passed again.
Expire ==
  /\ \E x \in alive :
       /\ alive' = alive \ {x}
       /\ cachedFor' = [cachedFor EXCEPT ![x] = NoCall]
  /\ last' = NoLast
  /\ UNCHANGED <<weak_image_refs, born, nconv, afterFlush, sketchVars>>

InitCache ==
  /\ weak_image_refs = <<>>
  /\ born = 0
  /\ alive = {}
  /\ nconv = 0
  /\ last = NoLast
  /\ cachedFor = [x \in Objects |-> NoCall]
  /\ afterFlush = FALSE

NextCache == Resolve \/ flush_image_cache \/ NewObject \/ Expire

(***************************************************************************)
(* Sketch capture: values                                                  *)
(***************************************************************************)
MaxNameLen == 2      \* length of a --variable argument
MaxBoundVars == 1    \* user variables bound in the notebook namespace

\* Characters of names.  A cell-magic line holds no newline or blank.
Letters == {"a", "e", "g", "i", "n", "p", "r", "s", "t", "u", "y"}
Digits == {"1", "5"}
Chars == {"a", "1", "-"}

\* Sequences over S of length 1..n.
RECURSIVE SeqsUpTo(_, _)
SeqsUpTo(S, n) ==
  IF n = 0 THEN {}
  ELSE LET shorter == SeqsUpTo(S, n - 1)
       IN {<<c>> : c \in S} \cup shorter \cup {Append(w, c) : w \in shorter, c \in S}

VarNames == SeqsUpTo(Chars, MaxNameLen)

\* The name '_py5_user_ns' and the names the generated script binds.
Py5UserNs == <<"_", "p", "y", "5", "_", "u", "s", "e", "r", "_", "n", "s">>
Py5Name == <<"p", "y", "5">>
SettingsName == <<"s", "e", "t", "t", "i", "n", "g", "s">>
SetupName == <<"s", "e", "t", "u", "p">>
SketchNames == {Py5Name, SettingsName, SetupName}

RasterRenderers == {"HIDDEN", "JAVA2D", "P2D", "P3D"}
Renderers == RasterRenderers \cup {"SVG", "PDF", "DXF", "FOO"}
Filenames == {"out"}
NoArg == <<>>        \* --variable was not given
NoFile == ""         \* --filename was not given

MsgRunning == "You must exit the currently running sketch before running another sketch."
MsgUseSvg == "please use %%py5drawsvg for SVG drawings."
MsgUsePdf == "please use %%py5drawpdf for PDFs."
MsgUnknown == "unknown renderer"
MsgPdf == "PDF written to"
MsgDxf == "DXF written to"
MsgSvg == "SVG drawing written to"
MsgPng == "PNG file written to"
MsgAssigned == "PIL Image assigned to"
MsgInvalid == "Invalid variable name"

NoTempDir == [exists |-> FALSE, script |-> FALSE, out |-> "absent"]

NoFrame == [magic |-> "none", renderer |-> "none", safe_exec |-> TRUE,
            filename |-> NoFile, variable |-> NoArg,
            template |-> "none", suffix |-> "none", read_mode |-> "none",
            result |-> "None", exc |-> FALSE, outcome |-> "none",
            events |-> {},       \* what this call has done so far
            produced |-> "absent", \* what the sketch left in the output file
            ns0 |-> {}, files0 |-> {}]  \* namespace and files when called

(***************************************************************************)
(* Sketch capture: helpers                                                 *)
(***************************************************************************)
\* Variant: no test against the list of raster renderers.
Validate_noListCheck(renderer) ==
  IF renderer = "SVG" THEN MsgUseSvg
  ELSE IF renderer = "PDF" THEN MsgUsePdf
  ELSE ""

\* The three guards of py5draw: the message printed, or "" to go on.
Validate(renderer) ==
  IF renderer = "SVG" THEN MsgUseSvg
  ELSE IF renderer = "PDF" THEN MsgUsePdf
  ELSE IF renderer \notin {"HIDDEN", "JAVA2D", "P2D", "P3D"} THEN MsgUnknown
  ELSE ""

\* The renderer dispatch at the head of _run_sketch.
SelectTemplate(renderer) ==
  IF renderer = "SVG"
  THEN [template |-> "_SAVE_OUTPUT_CODE_TEMPLATE", suffix |-> ".svg", read_mode |-> "r"]
  ELSE IF renderer = "PDF"
  THEN [template |-> "_SAVE_OUTPUT_CODE_TEMPLATE", suffix |-> ".pdf", read_mode |-> "rb"]
  ELSE IF renderer = "DXF"
  THEN [template |-> "_DXF_CODE_TEMPLATE", suffix |-> ".dxf", read_mode |-> "r"]
  ELSE [template |-> "_STANDARD_CODE_TEMPLATE", suffix |-> ".png", read_mode |-> "rb"]

\* Variant: the running sketch is not looked at.
AbortIfRunning_never(running) == FALSE

\* `if py5.is_running`
AbortIfRunning(running) == running

\* The regular expression ^[a-zA-Z_]\w*$ under re.match.
IsWordChar(c) == c \in Letters \cup Digits \cup {"_"}

\* Variant: the pattern without its final $.
MatchWordCharsToEnd_unanchored(rest) == TRUE

\* \w*$ : greedy word characters, then the end of the string or the newline
\* that ends it.
RECURSIVE MatchWordCharsToEnd(_)
MatchWordCharsToEnd(rest) ==
  IF rest = <<>> \/ rest = <<"\n">> THEN TRUE
  ELSE IF IsWordChar(Head(rest)) THEN MatchWordCharsToEnd(Tail(rest))
  ELSE FALSE

\* DrawingMagics._variable_name_check
variable_name_check(varname) ==
  /\ varname # <<>>
  /\ Head(varname) \in Letters \cup {"_"}
  /\ MatchWordCharsToEnd(Tail(varname))

\* Variant: the directory is removed at the end of the block only.
CleanedTempDir_onSuccessOnly(td, exc) == IF exc THEN td ELSE NoTempDir

\* Leaving `with tempfile.TemporaryDirectory()`, normally or by an exception:
\* the directory and everything in it is removed.
CleanedTempDir(td, exc) == NoTempDir

\* Python truth of the value read from the output file.
Truthy(result) == result \notin {"None", "empty"}

UserBound == user_ns \ ({Py5UserNs} \cup SketchNames)

(***************************************************************************)
(* Sketch capture: the cell magics                                         *)
(***************************************************************************)
\* The notebook runs a cell magic: parse_argstring has produced args.
CallMagic ==
  /\ pc = "idle"
  /\ \E magic \in {"py5draw", "py5drawsvg", "py5drawpdf", "py5drawdxf"} :
     \E unsafe \in BOOLEAN :
     \E filename \in (IF magic \in {"py5drawpdf", "py5drawdxf"} THEN Filenames
                      ELSE Filenames \cup {NoFile}) :
     \E variable \in (IF magic = "py5draw" /\ Cardinality(UserBound) < MaxBoundVars
                      THEN VarNames \cup {NoArg} ELSE {NoArg}) :
     \E renderer \in (IF magic = "py5draw" THEN Renderers
                      ELSE IF magic = "py5drawsvg" THEN {"SVG"}
                      ELSE IF magic = "py5drawpdf" THEN {"PDF"} ELSE {"DXF"}) :
       /\ frame' = [NoFrame EXCEPT !.magic = magic, !.renderer = renderer,
                                   !.safe_exec = ~unsafe, !.filename = filename,
                                   !.variable = variable, !.outcome = "running",
                                   !.ns0 = user_ns, !.files0 = files]
       /\ pc' = IF magic = "py5draw" THEN "validate" ELSE "run_sketch"
  /\ UNCHANGED <<is_running, user_ns, tempdir, files, stdout, displayed, cacheVars>>

\* py5draw, the three guards before _run_sketch.
ValidateRenderer ==
  /\ pc = "validate"
  /\ LET msg == Validate(frame.renderer) IN
     IF msg # ""
     THEN /\ stdout' = Append(stdout, msg)
          /\ pc' = "done"
          /\ frame' = [frame EXCEPT !.outcome = "returned"]
     ELSE /\ pc' = "run_sketch"
          /\ UNCHANGED <<stdout, frame>>
  /\ UNCHANGED <<is_running, user_ns, tempdir, files, displayed, cacheVars>>

\* _run_sketch: the renderer dispatch.
RunSketchEntry ==
  /\ pc = "run_sketch"
  /\ LET t == SelectTemplate(frame.renderer) IN
     frame' = [frame EXCEPT !.template = t.template, !.suffix = t.suffix,
                            !.read_mode = t.read_mode,
                            !.events = @ \cup {"run_sketch"}]
  /\ pc' = "check_running"
  /\ UNCHANGED <<is_running, user_ns, tempdir, files, stdout, displayed, cacheVars>>

\* _run_sketch: `if py5.is_running: print(...); return None`
CheckRunning ==
  /\ pc = "check_running"
  /\ IF AbortIfRunning(is_running)
     THEN /\ stdout' = Append(stdout, MsgRunning)
          /\ frame' = [frame EXCEPT !.result = "None", !.events = @ \cup {"aborted"}]
          /\ pc' = "post"
     ELSE /\ pc' = "prepare"
          /\ UNCHANGED <<stdout, frame>>
  /\ UNCHANGED <<is_running, user_ns, tempdir, files, displayed, cacheVars>>

\* _run_sketch: `if safe_exec: ... else: user_ns['_py5_user_ns'] = user_ns`
PrepareCode ==
  /\ pc = "prepare"
  /\ user_ns' = IF frame.safe_exec THEN user_ns ELSE user_ns \cup {Py5UserNs}
  /\ pc' = "mkdtemp"
  /\ UNCHANGED <<frame, is_running, tempdir, files, stdout, displayed, cacheVars>>

\* _run_sketch: entering `with tempfile.TemporaryDirectory() as tempdir`.
EnterTempDir ==
  /\ pc = "mkdtemp"
  /\ tempdir' = [NoTempDir EXCEPT !.exists = TRUE]
  /\ frame' = [frame EXCEPT !.events = @ \cup {"tempdir"}]
  /\ pc' = "write"
  /\ UNCHANGED <<is_running, user_ns, files, stdout, displayed, cacheVars>>

\* _run_sketch: the generated script is written; the write can fail.
WriteScript ==
  /\ pc = "write"
  /\ \/ /\ tempdir' = [tempdir EXCEPT !.script = TRUE]
        /\ frame' = [frame EXCEPT !.events = @ \cup {"script"}]
        /\ pc' = "exec"
     \/ /\ frame' = [frame EXCEPT !.exc = TRUE]
        /\ pc' = "exit_with"
        /\ UNCHANGED tempdir
  /\ UNCHANGED <<is_running, user_ns, files, stdout, displayed, cacheVars>>

\* _run_sketch: exec(_CODE_FRAMEWORK...) in user_ns.  The script imports py5,
\* defines settings and setup and runs the sketch, which may or may not
\* write the output file; compiling or running it can raise.
ExecSketch ==
  /\ pc = "exec"
  /\ \E out \in {"absent", "empty", "data"} : \E raises \in BOOLEAN :
     \E bound \in {{Py5Name}, SketchNames} :
       /\ ~raises => bound = SketchNames
       /\ tempdir' = [tempdir EXCEPT !.out = out]
       /\ user_ns' = user_ns \cup bound
       /\ frame' = [frame EXCEPT !.exc = raises, !.produced = out,
                                  !.events = @ \cup {"exec"}]
       /\ pc' = IF raises THEN "exit_with" ELSE "read"
  /\ UNCHANGED <<is_running, files, stdout, displayed, cacheVars>>

\* _run_sketch: `if temp_out.exists(): result = f.read() else: result = None`
ReadOutput ==
  /\ pc = "read"
  /\ frame' = [frame EXCEPT !.result = IF tempdir.out # "absent" THEN tempdir.out
                                       ELSE "None"]
  /\ pc' = "exit_with"
  /\ UNCHANGED <<is_running, user_ns, tempdir, files, stdout, displayed, cacheVars>>

\* _run_sketch: the with block is left.  An exception goes on through
\* _run_sketch and the cell magic, which catch nothing.
ExitTempDir ==
  /\ pc = "exit_with"
  /\ tempdir' = CleanedTempDir(tempdir, frame.exc)
  /\ IF frame.exc
     THEN /\ pc' = "done"
          /\ frame' = [frame EXCEPT !.outcome = "raised"]
     ELSE /\ pc' = "cleanup_ns"
          /\ UNCHANGED frame
  /\ UNCHANGED <<is_running, user_ns, files, stdout, displayed, cacheVars>>

\* _run_sketch: `if not safe_exec: del user_ns['_py5_user_ns']; return result`
CleanupNamespace ==
  /\ pc = "cleanup_ns"
  /\ user_ns' = IF ~frame.safe_exec THEN user_ns \ {Py5UserNs} ELSE user_ns
  /\ pc' = "post"
  /\ UNCHANGED <<frame, is_running, tempdir, files, stdout, displayed, cacheVars>>

\* py5drawpdf and py5drawdxf after _run_sketch.
PostPdfDxf ==
  /\ pc = "post"
  /\ frame.magic \in {"py5drawpdf", "py5drawdxf"}
  /\ IF Truthy(frame.result)
     THEN /\ files' = files \cup {frame.filename}
          /\ stdout' = Append(stdout, IF frame.magic = "py5drawpdf" THEN MsgPdf ELSE MsgDxf)
          /\ frame' = [frame EXCEPT !.outcome = "returned", !.events = @ \cup {"file"}]
     ELSE /\ frame' = [frame EXCEPT !.outcome = "returned"]
          /\ UNCHANGED <<files, stdout>>
  /\ pc' = "done"
  /\ UNCHANGED <<is_running, user_ns, tempdir, displayed, cacheVars>>

\* py5drawsvg after _run_sketch.
PostSvg ==
  /\ pc = "post"
  /\ frame.magic = "py5drawsvg"
  /\ IF Truthy(frame.result)
     THEN LET write == frame.filename # NoFile IN
          /\ files' = IF write THEN files \cup {frame.filename} ELSE files
          /\ stdout' = IF write THEN Append(stdout, MsgSvg) ELSE stdout
          /\ displayed' = Append(displayed, "SVG")
          /\ frame' = [frame EXCEPT !.outcome = "returned",
                         !.events = @ \cup {"display"} \cup (IF write THEN {"file"} ELSE {})]
     ELSE /\ frame' = [frame EXCEPT !.outcome = "returned"]
          /\ UNCHANGED <<files, stdout, displayed>>
  /\ pc' = "done"
  /\ UNCHANGED <<is_running, user_ns, tempdir, cacheVars>>

\* py5draw after _run_sketch.
PostDraw ==
  /\ pc = "post"
  /\ frame.magic = "py5draw"
  /\ IF Truthy(frame.result)
     THEN LET write == frame.filename # NoFile
              given == frame.variable # NoArg
              bind == given /\ variable_name_check(frame.variable)
              out1 == IF write THEN Append(stdout, MsgPng) ELSE stdout
          IN /\ files' = IF write THEN files \cup {frame.filename} ELSE files
             /\ user_ns' = IF bind THEN user_ns \cup {frame.variable} ELSE user_ns
             /\ stdout' = IF bind THEN Append(out1, MsgAssigned)
                          ELSE IF given THEN Append(out1, MsgInvalid)
                          ELSE out1
             /\ displayed' = Append(displayed, "Image")
             /\ frame' = [frame EXCEPT !.outcome = "returned",
                            !.events = @ \cup {"display"}
                                         \cup (IF write THEN {"file"} ELSE {})
                                         \cup (IF bind THEN {"bind"} ELSE {})]
     ELSE /\ frame' = [frame EXCEPT !.outcome = "returned"]
          /\ UNCHANGED <<files, user_ns, stdout, displayed>>
  /\ pc' = "done"
  /\ UNCHANGED <<is_running, tempdir, cacheVars>>

\* The cell magic is over: control is back in the notebook, which shows the
\* cell's output and forgets the call.
EndOfCell ==
  /\ pc = "done"
  /\ pc' = "idle"
  /\ frame' = NoFrame
  /\ stdout' = <<>>
  /\ displayed' = <<>>
  /\ UNCHANGED <<is_running, user_ns, tempdir, files, cacheVars>>

\* Between cells another sketch is started or exits.
ToggleRunning ==
  /\ pc = "idle"
  /\ is_running' = ~is_running
  /\ UNCHANGED <<pc, frame, user_ns, tempdir, files, stdout, displayed, cacheVars>>

InitSketch ==
  /\ pc = "idle"
  /\ frame = NoFrame
  /\ is_running = FALSE
  /\ user_ns = {}
  /\ tempdir = NoTempDir
  /\ files = {}
  /\ stdout = <<>>
  /\ displayed = <<>>

NextSketch ==
  \/ CallMagic \/ ValidateRenderer \/ RunSketchEntry \/ CheckRunning
  \/ PrepareCode \/ EnterTempDir \/ WriteScript \/ ExecSketch \/ ReadOutput
  \/ ExitTempDir \/ CleanupNamespace \/ PostPdfDxf \/ PostSvg \/ PostDraw
  \/ EndOfCell \/ ToggleRunning

Init == InitCache /\ InitSketch

SpecCache == Init /\ [][NextCache]_vars

SpecSketch == Init /\ [][NextSketch]_vars

(***************************************************************************)
(* Image cache: properties                                                 *)
(***************************************************************************)
\* The step made is resolve(image, True).
CachedResolveStep == last'.op = "resolve" /\ last'.cache

Expired(entry) == Deref(entry.ref) = None

TupleThenOtherTuple ==
  /\ CachedResolveStep
  /\ cachedFor'[last'.key].extra # 0
  /\ cachedFor[last'.key].called
  /\ cachedFor[last'.key].extra \notin {0, cachedFor'[last'.key].extra}

C4_FlushThenMiss ==
  [][/\ last'.op = "flush" => weak_image_refs' = <<>>
     /\ (CachedResolveStep /\ afterFlush)
        => /\ last'.converted
           /\ weak_image_refs' = <<[ref |-> last'.key, pimage |-> last'.ret]>>]_vars

\* The first cached resolve after a flush of a cache that had entries.
C4_Witness ==
  /\ last.op = "resolve" /\ last.first /\ last.converted
  /\ nconv >= 2
  /\ Len(weak_image_refs) = 1

\* C10 (as stated): after a lookup, hit or miss, no expired entry remains.
C10_NoExpiredAfterLookup ==
  (last.op = "resolve" /\ last.cache)
    => \A i \in 1..Len(weak_image_refs) : ~Expired(weak_image_refs[i])

\* C10 (amended): the scan stops at the most recent live entry of the
\* looked-up object.  After the lookup every remaining expired entry is older
\* than that entry; if the object had no entry, no expired entry remains and
\* the image is converted afresh.
C10_NoExpiredAfterFoundEntry ==
  [][CachedResolveStep
       => LET n == Len(weak_image_refs')
              scanned == IF last'.converted
                         THEN SubSeq(weak_image_refs', 1, n - 1)
                         ELSE weak_image_refs'
          IN /\ \A i \in 1..Len(scanned) :
                  Expired(scanned[i])
                    => \E j \in (i + 1)..Len(scanned) : scanned[j].ref = last'.key
             /\ (\A i \in 1..Len(weak_image_refs) :
                   weak_image_refs[i].ref # last'.key)
                => /\ last'.converted
                   /\ \A i \in 1..n : ~Expired(weak_image_refs'[i])]_vars

\* A hit that left an older expired entry in place.
C10_Witness ==
  /\ last.op = "resolve" /\ last.cache /\ ~last.converted
  /\ \E i \in 1..Len(weak_image_refs) : Expired(weak_image_refs[i])

(***************************************************************************)
(* Sketch capture: properties                                              *)
(***************************************************************************)
\* _run_sketch was entered by this call and is over (returned or raised).
RunSketchOver == pc \in {"post", "done"} /\ "run_sketch" \in frame.events

\* C5: after _run_sketch was called with safe_exec false, '_py5_user_ns' is
\* not bound in the caller's namespace, however _run_sketch ended.
C5_InternalNameRemoved ==
  (RunSketchOver /\ ~frame.safe_exec) => Py5UserNs \notin user_ns

\* C6: when a sketch is running as _run_sketch is called, it prints the
\* message and returns None; no temporary directory or script is made,
\* nothing is executed, the namespace is as it was, and the cell magic
\* writes no file and displays nothing.
C6_AlreadyRunningAborts ==
  (RunSketchOver /\ is_running)
    => /\ frame.result = "None"
       /\ ~frame.exc
       /\ frame.events = {"run_sketch", "aborted"}
       /\ tempdir = NoTempDir
       /\ user_ns = frame.ns0
       /\ files = frame.files0
       /\ stdout = <<MsgRunning>>
       /\ displayed = <<>>

\* An unsafe py5drawsvg with a filename, called while a sketch is running.
C6_Witness ==
  /\ pc = "done" /\ is_running
  /\ frame.magic = "py5drawsvg" /\ ~frame.safe_exec /\ frame.filename # NoFile
  /\ frame.outcome = "returned"

\* C7: once _run_sketch is past its with block, by return or by exception,
\* the temporary directory and its files are gone; and what it returns is
\* what the sketch had left in the output file.
C7_TempDirRemoved ==
  (pc \in {"cleanup_ns", "post", "done"} /\ "tempdir" \in frame.events)
    => /\ tempdir = NoTempDir
       /\ ~frame.exc => frame.result = (IF frame.produced = "absent" THEN "None"
                                        ELSE frame.produced)

\* The sketch wrote its output and then raised.
C7_Witness ==
  /\ pc = "done" /\ frame.outcome = "raised"
  /\ "exec" \in frame.events /\ frame.produced = "data"
  /\ ~tempdir.exists

\* C8: py5draw with a renderer other than the four raster renderers prints
\* the redirect or the unknown-renderer message and does nothing else;
\* _run_sketch is entered from py5draw only with a raster renderer.
C8_ValidationGuard ==
  frame.magic = "py5draw"
    => /\ "run_sketch" \in frame.events => frame.renderer \in RasterRenderers
       /\ (pc = "done" /\ frame.renderer \notin RasterRenderers)
            => /\ stdout = <<(IF frame.renderer = "SVG" THEN MsgUseSvg
                              ELSE IF frame.renderer = "PDF" THEN MsgUsePdf
                              ELSE MsgUnknown)>>
               /\ frame.events = {}
               /\ frame.template = "none"
               /\ tempdir = NoTempDir
               /\ files = frame.files0
               /\ user_ns = frame.ns0
               /\ displayed = <<>>

\* py5draw -r DXF with a filename and a variable, rejected.
C8_Witness ==
  /\ pc = "done" /\ frame.magic = "py5draw" /\ frame.renderer = "DXF"
  /\ frame.filename # NoFile /\ frame.variable # NoArg
  /\ stdout = <<MsgUnknown>>

\* A Python identifier over the characters of the model.
IsIdentifier(name) ==
  /\ Len(name) >= 1
  /\ name[1] \in Letters \cup {"_"}
  /\ \A i \in 2..Len(name) : name[i] \in Letters \cup Digits \cup {"_"}

\* C9: a py5draw capture that produced an image, given a filename and a
\* variable name, writes the file and displays the image; it binds the
\* variable when the name is an identifier, and otherwise prints a message
\* and binds nothing.
C9_RasterPostProcessing ==
  (/\ pc = "done" /\ frame.magic = "py5draw" /\ frame.outcome = "returned"
   /\ Truthy(frame.result)
   /\ frame.filename # NoFile /\ frame.variable # NoArg)
    => /\ frame.filename \in files
       /\ "file" \in frame.events
       /\ displayed = <<"Image">>
       /\ IF IsIdentifier(frame.variable)
          THEN /\ frame.variable \in user_ns
               /\ stdout = <<MsgPng, MsgAssigned>>
          ELSE /\ UserBound = frame.ns0 \ ({Py5UserNs} \cup SketchNames)
               /\ frame.variable \notin user_ns
               /\ stdout = <<MsgPng, MsgInvalid>>

\* File written, variable a1 bound, image displayed.
C9_Witness ==
  /\ pc = "done" /\ frame.magic = "py5draw"
  /\ frame.variable = <<"a", "1">> /\ frame.variable \in user_ns
  /\ frame.variable \notin frame.ns0
  /\ frame.filename \in files /\ frame.filename \notin frame.files0
  /\ displayed = <<"Image">>

====
